---- MODULE Spec2Model ----
(***************************************************************************)
(* A model of the relay backend: the server-sent-event line reassembly     *)
(* loops (utils.py Model._stream, routers/chat.py event_generator), the    *)
(* MCP connection manager (mcp_client.py MCPManager / MCPClient) and the   *)
(* tool-call approval endpoints (routers/chat.py, app.py).                 *)
(*                                                                         *)
(* Text is modelled as sequences of one-character strings, so that find,   *)
(* strip, startswith and slicing are computed as Python computes them.     *)
(***************************************************************************)
EXTENDS Integers, Sequences, FiniteSets, TLC

(***************************************************************************)
(* Bounds of the model.                                                    *)
(***************************************************************************)
\* lines of an upstream event stream
MaxLines == 3

\* requests served over the life of the process
MaxRequests == 3

\* request workers running at the same time
NumProcs == 2

\* tool calls listed in one approval request
MaxToolCalls == 2

\* requests that arrive while the approval endpoints are observed
MaxApprovals == 2

\* messages in a chat history
MaxMessages == 2

(***************************************************************************)
(* Text helpers (Python str operations on character sequences).            *)
(***************************************************************************)
NL == "\n"

\* the characters str.strip() removes, among those the model's text uses
Whitespace == {" ", "\t", "\r", "\n"}

\* "data: "
DataPrefix == <<"d", "a", "t", "a", ":", " ">>

\* "[DONE]"
DoneText == <<"[", "D", "O", "N", "E", "]">>

\* buffer.find("\n"): the 1-based index of the first newline, 0 for Python's -1
Find(buf) ==
  IF \E i \in 1..Len(buf) : buf[i] = NL
  THEN CHOOSE i \in 1..Len(buf) : buf[i] = NL /\ \A j \in 1..(i - 1) : buf[j] # NL
  ELSE 0

RECURSIVE LStrip(_)
LStrip(s) ==
  IF s # <<>> /\ Head(s) \in Whitespace THEN LStrip(Tail(s)) ELSE s

RECURSIVE RStrip(_)
RStrip(s) ==
  IF s # <<>> /\ s[Len(s)] \in Whitespace THEN RStrip(SubSeq(s, 1, Len(s) - 1)) ELSE s

\* the line is taken as it is
NoStrip(s) == s

\* str.strip()
Strip(s) == RStrip(LStrip(s))

\* str.startswith(prefix)
StartsWith(s, prefix) ==
  Len(s) >= Len(prefix) /\ SubSeq(s, 1, Len(prefix)) = prefix

\* line[6:]
Payload(line) == SubSeq(line, Len(DataPrefix) + 1, Len(line))

\* f"data: {data}\n\n"
SseFrame(data) == DataPrefix \o data \o <<NL, NL>>

\* "data: [DONE]\n\n"
DoneFrame == SseFrame(DoneText)

(***************************************************************************)
(* The two line-reassembly loops.  Each takes the buffer after a chunk was *)
(* appended and the frames yielded so far, and returns the buffer and the  *)
(* frames when the inner `while True` loop is left; done says that a       *)
(* [DONE] line was consumed, returned that the generator has returned.     *)
(***************************************************************************)
\* buffer += chunk, with the partial line dropped
AccumulateDropsPartial(buffer, chunk) == chunk

\* buffer += chunk
Accumulate(buffer, chunk) == buffer \o chunk

\* Model._stream: [DONE] leaves the inner loop only (break)
RECURSIVE StreamLoop(_, _)
StreamLoop(buf, frames) ==
  LET line_end == Find(buf) IN
  IF line_end = 0
  THEN [buffer |-> buf, out |-> frames, done |-> FALSE, returned |-> FALSE]
  ELSE LET line == Strip(SubSeq(buf, 1, line_end - 1))
           rest == SubSeq(buf, line_end + 1, Len(buf))
       IN IF StartsWith(line, DataPrefix)
          THEN IF Payload(line) = DoneText
               THEN [buffer |-> rest, out |-> frames, done |-> TRUE, returned |-> FALSE]
               ELSE StreamLoop(rest, Append(frames, Payload(line)))
          ELSE StreamLoop(rest, frames)

\* approve_tool_calls_streaming.event_generator: [DONE] is forwarded and the
\* generator returns
RECURSIVE GeneratorLoop(_, _)
GeneratorLoop(buf, frames) ==
  LET line_end == Find(buf) IN
  IF line_end = 0
  THEN [buffer |-> buf, out |-> frames, done |-> FALSE, returned |-> FALSE]
  ELSE LET line == Strip(SubSeq(buf, 1, line_end - 1))
           rest == SubSeq(buf, line_end + 1, Len(buf))
       IN IF StartsWith(line, DataPrefix)
          THEN IF Payload(line) = DoneText
               THEN [buffer |-> rest, out |-> Append(frames, DoneFrame),
                     done |-> TRUE, returned |-> TRUE]
               ELSE GeneratorLoop(rest, Append(frames, SseFrame(Payload(line))))
          ELSE GeneratorLoop(rest, frames)

Variants == {"_stream", "event_generator"}

\* str(e) of the exception that reading the upstream body raised
ErrorText == <<"{", "e", "}">>

\* f"data: {json.dumps({'error': str(e)})}\n\n"
ErrorFrame == SseFrame(ErrorText)

\* what the caller is given once reading the upstream body has raised:
\* event_generator's `except Exception` yields one error frame; _stream has
\* no except clause around its for loop and its callers have none either
OnRaise(v) == IF v = "event_generator" THEN <<ErrorFrame>> ELSE <<>>

Loop(v, buf, frames) ==
  IF v = "_stream" THEN StreamLoop(buf, frames) ELSE GeneratorLoop(buf, frames)

(***************************************************************************)
(* Upstream event streams: up to MaxLines lines, each one of the line      *)
(* shapes below, each ended by a newline; the upstream may close the       *)
(* connection in the middle of the last line.                              *)
(***************************************************************************)
LineShapes ==
  << <<"d", "a", "t", "a", ":", " ", "a">>,
     <<"d", "a", "t", "a", ":", " ", "[", "D", "O", "N", "E", "]">>,
     <<>>,
     <<" ", "d", "a", "t", "a", ":", " ", "b", "\r">>,
     <<"d", "a", "t", "a", ":", "c">> >>

RECURSIVE Concat(_)
Concat(ls) ==
  IF ls = <<>> THEN <<>> ELSE LineShapes[Head(ls)] \o <<NL>> \o Concat(Tail(ls))

StreamChoices ==
  UNION {[1..n -> 1..Len(LineShapes)] : n \in 1..MaxLines}

VARIABLES
  variant,    \* which loop reads the stream
  stream,     \* the text the upstream will send
  pos,        \* how much of it iter_content has delivered
  buffer,     \* the loop's buffer
  out,        \* the frames yielded to the caller, in order
  sstate,     \* "open", "returned" (generator returned on [DONE]), "closed",
              \* "raised" (reading the upstream body raised)
  doneAt,     \* history: Len(out) when a [DONE] line was first consumed, -1 before
  chunks,     \* history: the number of chunks delivered (2 stands for two or more)
  sawPartial, \* history: a chunk ended in the middle of a line
  afterRaise  \* the frames yielded to the caller after reading the body raised

svars == <<variant, stream, pos, buffer, out, sstate, doneAt, chunks, sawPartial,
           afterRaise>>

(***************************************************************************)
(* The connection manager: MCPManager and its MCPClient objects.           *)
(***************************************************************************)
Procs == 1..NumProcs

\* every request creates at most one MCPClient object
ClientIds == 1..MaxRequests

NoClient == 0

ServerTypes == {"filesystem", "cmu_api"}

\* the keys of MCPManager.default_configs
DefaultTypes == {"filesystem"}

\* custom_config arguments: None, {} and a non-empty dict
Configs == {"None", "{}", "A"}

\* Python truthiness of a custom_config
Truthy(c) == c \notin {"None", "{}"}

\* str(custom_config) if custom_config else ''
ConfigText(c) == IF Truthy(c) THEN c ELSE ""

\* hash() of the two texts the model's configs have: Python seeds str hashing
\* per process, so the process starts with one of the functions below (equal
\* hashes of distinct texts, or different ones)
HashChoices ==
  { [t \in {"", "A"} |-> IF t = "" THEN 0 ELSE 1],
    [t \in {"", "A"} |-> 0] }

\* the key with the server type left out
ClientKeyIgnoresType(server_type, custom_config, h) ==
  <<"", h[ConfigText(custom_config)]>>

\* client_key = f"{server_type}_{hash(...)}": a decimal hash holds no "_", so
\* the text determines the pair and the pair stands for the text
ClientKey(server_type, custom_config, h) ==
  <<server_type, h[ConfigText(custom_config)]>>

\* config = custom_config or self.default_configs.get(server_type)
ConfigFor(server_type, custom_config) ==
  IF Truthy(custom_config) THEN custom_config
  ELSE IF server_type \in DefaultTypes THEN "default" ELSE "None"

\* MCPClient.__init__
\* (stack: exit_stack holds contexts to exit; key and failed are history: the
\* key the object was created for, and that its connect sequence failed)
NewClient(k) ==
  [connected |-> FALSE, session |-> "none", transport |-> "none",
   tools |-> FALSE, stack |-> FALSE, failed |-> FALSE, key |-> k]

NoKey == <<"", 0>>

\* MCPManager.clients, a dict in insertion order: a sequence of entries
HasKey(d, k) == \E i \in 1..Len(d) : d[i].key = k

Lookup(d, k) == d[CHOOSE i \in 1..Len(d) : d[i].key = k].client

Store(d, k, c) ==
  IF HasKey(d, k)
  THEN [i \in 1..Len(d) |-> IF d[i].key = k THEN [key |-> k, client |-> c] ELSE d[i]]
  ELSE Append(d, [key |-> k, client |-> c])

\* the client is stored whatever connect_to_server returned
StoreAlways(d, k, c, ok) == Store(d, k, c)

\* a failed connect empties the mapping
StoreOrReset(d, k, c, ok) == IF ok THEN Store(d, k, c) ELSE <<>>

\* if success: self.clients[client_key] = client
StoreIfConnected(d, k, c, ok) == IF ok THEN Store(d, k, c) ELSE d

\* the session is opened before the transport
ConnectStepsSessionFirst == <<"session", "transport", "initialize", "list_tools">>

\* the awaited steps of connect_to_server, in the order of the code
ConnectSteps == <<"transport", "session", "initialize", "list_tools">>

\* the client after one step of connect_to_server succeeded
AfterStep(c, name) ==
  CASE name = "transport" -> [c EXCEPT !.transport = "open", !.stack = TRUE]
    [] name = "session" -> [c EXCEPT !.session = "open"]
    [] name = "initialize" -> c
    [] name = "list_tools" -> [c EXCEPT !.tools = TRUE, !.connected = TRUE]

\* the except clauses of connect_to_server: self.connected = False
AfterFailure(c) == [c EXCEPT !.connected = FALSE, !.failed = TRUE]

\* connect_to_server on client c when the steps before step failAt succeed and
\* that one fails or times out (failAt = 0: none does): the steps run in order
\* and the first failure ends the attempt
RECURSIVE ConnectFrom(_, _, _)
ConnectFrom(c, n, failAt) ==
  IF n > Len(ConnectSteps) THEN c
  ELSE IF n = failAt THEN AfterFailure(c)
  ELSE ConnectFrom(AfterStep(c, ConnectSteps[n]), n + 1, failAt)

ConnectToServer(c, failAt) == ConnectFrom(c, 1, failAt)

VARIABLES
  hashOf,     \* this process's str hash
  clients,    \* MCPManager.clients
  cl,         \* the MCPClient objects created so far, by id
  nextId,     \* the id of the next MCPClient object
  started,    \* the number of requests started
  pc,         \* where each worker is
  req,        \* the request each worker serves
  client,     \* the worker's local `client` (in get_or_create_client, cleanup_all)
  held,       \* the client get_or_create_client returned to the caller
  outcome,    \* how the worker's last operation ended
  iter,       \* cleanup_all's iterator: [at, size]
  prior,      \* history: the clients callers held for the call's key when it started
  didConnect, \* history: the call ran the connect sequence
  fresh,      \* history: no cleanup ran since the worker was given its client
  messages,   \* an approval handler's local `messages`
  idx,        \* the place of its loop over request.tool_calls
  resp,       \* what the handler has delivered to its caller, in order
  posts,      \* the upstream completion requests the handler has issued
  endings     \* history: how the handler's call_tool calls ended, in order

mvars == <<hashOf, clients, cl, nextId, started, pc, req, client, held,
           outcome, iter, prior, didConnect, fresh, messages, idx, resp, posts,
           endings>>

\* the variables of the approval handlers
avars == <<messages, idx, resp, posts, endings>>

(***************************************************************************)
(* The conversation builder: the loop over chat_history in                 *)
(* Model.reply_with_history (utils.py) and event_generator (chat.py).      *)
(***************************************************************************)
Roles == {"user", "assistant"}

\* msg.content: the empty string or a text
Texts == {"", "hi"}

\* an optional dict field of a Message: None, an empty dict, or its data
Attachments == {"None", "{}", "data"}

\* the Message objects of a request (image: any dict; audio, pdf: None or data)
Messages ==
  [role : Roles, content : Texts, image : Attachments,
   audio : {"None", "data"}, pdf : {"None", "data"}]

\* Python truthiness of a field of a Message
Set(v) == v \notin {"", "None", "{}"}

\* one appended content block: its 'type' and the field it was made from
Block(type, v) == [type |-> type, value |-> v]

\* content.append(...) under if: the block of a field, or none
BlockIf(type, v) == IF Set(v) THEN <<Block(type, v)>> ELSE <<>>

\* the blocks with audio put before the image
ContentAudioFirst(msg) ==
  BlockIf("text", msg.content) \o BlockIf("input_audio", msg.audio)
    \o BlockIf("image_url", msg.image) \o BlockIf("file", msg.pdf)

\* the body of the loop: content = [] and the four if statements in order
Content(msg) ==
  BlockIf("text", msg.content) \o BlockIf("image_url", msg.image)
    \o BlockIf("input_audio", msg.audio) \o BlockIf("file", msg.pdf)

\* messages.append({'role': msg.role, 'content': content})
Built(msg) == [role |-> msg.role, content |-> Content(msg)]

\* chat_history arguments
Histories == UNION {[1..n -> Messages] : n \in 0..MaxMessages}

VARIABLES
  history,    \* chat_history
  built       \* messages, as built so far

bvars == <<history, built>>

\* no conversation is being built
BIdle == history = <<>> /\ built = <<>>

\* one iteration of for msg in chat_history
BuildNext ==
  /\ Len(built) < Len(history)
  /\ built' = Append(built, Built(history[Len(built) + 1]))
  /\ UNCHANGED history

vars == <<svars, mvars, bvars>>

NoRequest ==
  [kind |-> "none", server_type |-> "", custom_config |-> "None",
   approved |-> FALSE, tool_calls |-> <<>>]

NoIter == [at |-> 0, size |-> 0]

MInit ==
  /\ clients = <<>>
  /\ cl = [c \in ClientIds |-> NewClient(NoKey)]
  /\ nextId = 1
  /\ started = 0
  /\ pc = [p \in Procs |-> "idle"]
  /\ req = [p \in Procs |-> NoRequest]
  /\ client = [p \in Procs |-> NoClient]
  /\ held = [p \in Procs |-> NoClient]
  /\ outcome = [p \in Procs |-> "none"]
  /\ iter = [p \in Procs |-> NoIter]
  /\ prior = [p \in Procs |-> {}]
  /\ didConnect = [p \in Procs |-> FALSE]
  /\ fresh = [p \in Procs |-> FALSE]
  /\ messages = [p \in Procs |-> <<>>]
  /\ idx = [p \in Procs |-> 0]
  /\ resp = [p \in Procs |-> <<>>]
  /\ posts = [p \in Procs |-> 0]
  /\ endings = [p \in Procs |-> <<>>]

\* the stream variables of a process that reads no stream
SIdle ==
  /\ variant = "_stream"
  /\ stream = <<>>
  /\ pos = 0
  /\ buffer = <<>>
  /\ out = <<>>
  /\ sstate = "closed"
  /\ doneAt = -1
  /\ chunks = 0
  /\ sawPartial = FALSE
  /\ afterRaise = <<>>

KeyOf(p) == ClientKey(req[p].server_type, req[p].custom_config, hashOf)

\* the workers are interchangeable: a request goes to the first idle one
Takes(p) ==
  /\ pc[p] = "idle"
  /\ \A q \in Procs : q < p => pc[q] # "idle"
  /\ started < MaxRequests

\* the locals of the operation are gone
Drop(p) ==
  /\ client' = [client EXCEPT ![p] = NoClient]
  /\ held' = [held EXCEPT ![p] = NoClient]
  /\ iter' = [iter EXCEPT ![p] = NoIter]
  /\ didConnect' = [didConnect EXCEPT ![p] = FALSE]

\* history: worker p's call is over
ForgetOwn(p) ==
  /\ fresh' = [fresh EXCEPT ![p] = FALSE]
  /\ prior' = [prior EXCEPT ![p] = {}]

\* history: a cleanup ran, so no client was given "with no cleanup since"
ForgetReturns ==
  /\ fresh' = [p \in Procs |-> FALSE]
  /\ prior' = [p \in Procs |-> {}]

\* an exception leaves the operation and reaches the caller's handler
Raise(p, e) ==
  /\ pc' = [pc EXCEPT ![p] = "raised"]
  /\ outcome' = [outcome EXCEPT ![p] = e]
  /\ req' = [req EXCEPT ![p].server_type = NoRequest.server_type,
                        ![p].custom_config = NoRequest.custom_config]
  /\ Drop(p)

\* a caller of get_or_create_client(server_type, custom_config)
StartGetOrCreate(p, s, c) ==
  /\ Takes(p)
  /\ started' = started + 1
  /\ req' = [req EXCEPT ![p] = [NoRequest EXCEPT !.kind = "get_or_create_client",
                                                 !.server_type = s,
                                                 !.custom_config = c]]
  /\ pc' = [pc EXCEPT ![p] = "goc_check"]
  /\ UNCHANGED <<hashOf, clients, cl, nextId, client, held, outcome, iter,
                 prior, didConnect, fresh>>

\* the clients that callers hold for key k, given with no cleanup since
HeldFor(k) ==
  {held[q] : q \in {r \in Procs : pc[r] \in {"have_client", "tool_wait", "tool_result"}
                                   /\ fresh[r] /\ KeyOf(r) = k}}

\* get_or_create_client up to the call of connect_to_server
GocCheck(p) ==
  /\ pc[p] = "goc_check"
  /\ IF HasKey(clients, KeyOf(p))
     THEN /\ pc' = [pc EXCEPT ![p] = "goc_return"]
          /\ prior' = [prior EXCEPT ![p] = HeldFor(KeyOf(p))]
          /\ UNCHANGED <<cl, nextId, client, didConnect, outcome, req, held,
                         iter, fresh>>
     ELSE /\ cl' = [cl EXCEPT ![nextId] = NewClient(KeyOf(p))]
          /\ nextId' = nextId + 1
          /\ IF ConfigFor(req[p].server_type, req[p].custom_config) = "None"
             THEN /\ Raise(p, "ValueError")
                  /\ ForgetOwn(p)
             ELSE /\ pc' = [pc EXCEPT ![p] = "connect"]
                  /\ client' = [client EXCEPT ![p] = nextId]
                  /\ didConnect' = [didConnect EXCEPT ![p] = TRUE]
                  /\ prior' = [prior EXCEPT ![p] = HeldFor(KeyOf(p))]
                  /\ UNCHANGED <<outcome, req, held, iter, fresh>>
  /\ UNCHANGED <<hashOf, clients, started>>

\* success = await client.connect_to_server(config), and what follows it: the
\* client is the caller's alone until it is stored
Connect(p, failAt) ==
  /\ pc[p] = "connect"
  /\ LET c == ConnectToServer(cl[client[p]], failAt) IN
     /\ cl' = [cl EXCEPT ![client[p]] = c]
     /\ clients' = StoreIfConnected(clients, KeyOf(p), client[p], c.connected)
     /\ IF c.connected
        THEN /\ pc' = [pc EXCEPT ![p] = "goc_return"]
             /\ UNCHANGED <<req, client, held, outcome, iter, prior, didConnect, fresh>>
        ELSE /\ Raise(p, "ConnectError")
             /\ ForgetOwn(p)
  /\ UNCHANGED <<hashOf, nextId, started>>

\* return self.clients[client_key]
GocReturn(p) ==
  /\ pc[p] = "goc_return"
  /\ IF HasKey(clients, KeyOf(p))
     THEN /\ held' = [held EXCEPT ![p] = Lookup(clients, KeyOf(p))]
          /\ pc' = [pc EXCEPT ![p] = "have_client"]
          /\ fresh' = [fresh EXCEPT ![p] = TRUE]
          /\ UNCHANGED <<req, client, iter, prior, didConnect, outcome>>
     ELSE /\ Raise(p, "KeyError")
          /\ ForgetOwn(p)
  /\ UNCHANGED <<hashOf, clients, cl, nextId, started>>

\* the caller is done: with its client, or after an exception reached it
Finish(p) ==
  /\ \/ pc[p] = "have_client" /\ req[p].kind = "get_or_create_client"
     \/ pc[p] = "listed"
     \/ pc[p] = "raised" /\ req[p].kind \in {"get_or_create_client", "cleanup_all"}
  /\ pc' = [pc EXCEPT ![p] = "idle"]
  /\ outcome' = [outcome EXCEPT ![p] = "none"]
  /\ req' = [req EXCEPT ![p] = NoRequest]
  /\ Drop(p)
  /\ ForgetOwn(p)
  /\ UNCHANGED <<hashOf, clients, cl, nextId, started>>

\* MCPClient.get_available_tools: [] if not connected, else the list that
\* connect_to_server stored
AvailableTools(c) == IF ~c.connected THEN "[]" ELSE IF c.tools THEN "cached" ELSE "[]"

\* get_mcp_tools: tools = await client.get_available_tools(), on the client
\* that get_or_create_client returned
GetAvailableTools(p) ==
  /\ pc[p] = "have_client"
  /\ req[p].kind = "get_or_create_client"
  /\ outcome' = [outcome EXCEPT ![p] = AvailableTools(cl[held[p]])]
  /\ pc' = [pc EXCEPT ![p] = "listed"]
  /\ UNCHANGED <<hashOf, clients, cl, nextId, started, req, client, held,
                 iter, prior, didConnect, fresh>>

\* call_tool: if not self.connected or not self.session: raise
CallToolBegin(p) ==
  /\ pc[p] = "have_client"
  /\ req[p].kind = "get_or_create_client"
  /\ IF ~cl[held[p]].connected \/ cl[held[p]].session = "none"
     THEN /\ Raise(p, "NotConnected")
          /\ ForgetOwn(p)
     ELSE /\ pc' = [pc EXCEPT ![p] = "tool_wait"]
          /\ UNCHANGED <<outcome, req, client, held, iter, prior, didConnect,
                         fresh>>
  /\ UNCHANGED <<hashOf, clients, cl, nextId, started>>

\* the endpoints that run approved tool calls
ApprovalKinds == {"approve_tool_calls_streaming", "approve_tool_calls"}

\* a timeout is not turned into a result record
RecoveredNotTimeout(e) == e \in {"success", "error"}

\* call_tool's try statement turns every ending of the awaited call into a
\* result record
Recovered(e) == e \in {"success", "timeout", "error"}

\* what wait_for(self.session.call_tool(...), timeout=5.0) can end with on a
\* client: a result only over an open session and transport
ToolEndings(c) ==
  IF c.session = "open" /\ c.transport = "open"
  THEN {"success", "timeout", "error"}
  ELSE {"timeout", "error"}

\* call_tool: the awaited call ended; each ending is turned into a result
CallToolEnd(p) ==
  /\ pc[p] = "tool_wait"
  /\ \E e \in ToolEndings(cl[held[p]]) :
       /\ endings' = [endings EXCEPT ![p] =
                       IF req[p].kind \in ApprovalKinds THEN Append(@, e) ELSE @]
       /\ IF Recovered(e)
          THEN /\ outcome' = [outcome EXCEPT ![p] = e]
               /\ pc' = [pc EXCEPT ![p] = "tool_result"]
               /\ UNCHANGED <<req, client, held, iter, didConnect>>
          ELSE Raise(p, "TimeoutError")
  /\ UNCHANGED <<hashOf, clients, cl, nextId, started, prior, fresh>>

\* the caller took the result record
TakeResult(p) ==
  /\ pc[p] = "tool_result"
  /\ req[p].kind = "get_or_create_client"
  /\ pc' = [pc EXCEPT ![p] = "have_client"]
  /\ outcome' = [outcome EXCEPT ![p] = "none"]
  /\ UNCHANGED <<hashOf, clients, cl, nextId, started, req, client, held,
                 iter, prior, didConnect, fresh>>

\* cleanup_all: the for statement creates the iterator of self.clients.values()
StartCleanupAll(p) ==
  /\ Takes(p)
  /\ started' = started + 1
  /\ req' = [req EXCEPT ![p].kind = "cleanup_all"]
  /\ iter' = [iter EXCEPT ![p] = [at |-> 1, size |-> Len(clients)]]
  /\ pc' = [pc EXCEPT ![p] = "cleanup_next"]
  /\ ForgetReturns
  /\ UNCHANGED <<hashOf, clients, cl, nextId, client, held, outcome,
                 didConnect>>

\* cleanup_all: the iterator's next(); a dict whose size changed raises
CleanupNext(p) ==
  /\ pc[p] = "cleanup_next"
  /\ IF Len(clients) # iter[p].size
     THEN Raise(p, "RuntimeError")
     ELSE IF iter[p].at > Len(clients)
     THEN /\ pc' = [pc EXCEPT ![p] = "cleanup_clear"]
          /\ UNCHANGED <<client, outcome, req, held, iter, didConnect>>
     ELSE /\ client' = [client EXCEPT ![p] = clients[iter[p].at].client]
          /\ pc' = [pc EXCEPT ![p] = "cleanup_aclose"]
          /\ UNCHANGED <<outcome, req, held, iter, didConnect>>
  /\ ForgetReturns
  /\ UNCHANGED <<hashOf, clients, cl, nextId, started>>

\* nothing is exited
NotClosed(c) == c

\* exit_stack.aclose(): every context the stack holds is exited, and the
\* stack holds none afterwards; on an empty stack nothing happens
Closed(c) ==
  IF c.stack
  THEN [c EXCEPT !.transport = IF @ = "open" THEN "closed" ELSE @,
                 !.session = IF @ = "open" THEN "closed" ELSE @,
                 !.stack = FALSE]
  ELSE c

\* the mapping is left as it is
NotCleared(d) == d

\* self.clients.clear()
Cleared(d) == <<>>

\* MCPClient.cleanup: await self.exit_stack.aclose()
CleanupAclose(p) ==
  /\ pc[p] = "cleanup_aclose"
  /\ cl' = [cl EXCEPT ![client[p]] = Closed(@)]
  /\ pc' = [pc EXCEPT ![p] = "cleanup_mark"]
  /\ ForgetReturns
  /\ UNCHANGED <<hashOf, clients, nextId, started, req, client, held,
                 outcome, iter, didConnect>>

\* MCPClient.cleanup: an exit of the stack raises (only a stack that holds a
\* context has an exit to run, and the stack runs every exit it holds); the
\* exception leaves cleanup and cleanup_all
CleanupAcloseRaises(p) ==
  /\ pc[p] = "cleanup_aclose"
  /\ cl[client[p]].stack
  /\ cl' = [cl EXCEPT ![client[p]] = Closed(@)]
  /\ Raise(p, "CleanupError")
  /\ ForgetReturns
  /\ UNCHANGED <<hashOf, clients, nextId, started>>

\* MCPClient.cleanup: self.connected = False; the loop goes on
CleanupMark(p) ==
  /\ pc[p] = "cleanup_mark"
  /\ cl' = [cl EXCEPT ![client[p]].connected = FALSE]
  /\ iter' = [iter EXCEPT ![p].at = @ + 1]
  /\ pc' = [pc EXCEPT ![p] = "cleanup_next"]
  /\ ForgetReturns
  /\ UNCHANGED <<hashOf, clients, nextId, started, req, client, held,
                 outcome, didConnect>>

\* cleanup_all: self.clients.clear()
CleanupClear(p) ==
  /\ pc[p] = "cleanup_clear"
  /\ clients' = Cleared(clients)
  /\ pc' = [pc EXCEPT ![p] = "idle"]
  /\ req' = [req EXCEPT ![p] = NoRequest]
  /\ Drop(p)
  /\ ForgetReturns
  /\ UNCHANGED <<hashOf, cl, nextId, started, outcome>>

(***************************************************************************)
(* The approval endpoints: approve_tool_calls_streaming (routers/chat.py,  *)
(* and its copy in app.py) and approve_tool_calls (app.py).                *)
(***************************************************************************)
Streaming(k) == k = "approve_tool_calls_streaming"

\* request.tool_calls: a call is modelled by whether json.loads accepts its
\* arguments; the id of a call is its place in the list
ToolCallLists == UNION {[1..n -> BOOLEAN] : n \in 0..MaxToolCalls}

\* what the caller is given: a frame of the event stream ("sse": data: ...\n\n),
\* a bare chunk of the stream ("bare": no data: prefix), or the JSON reply of
\* the non-streaming endpoint ("json")
Frame(form, body) == [form |-> form, body |-> body]

\* no request is ever taken as declined
DeclinedNever(r) == FALSE

\* the approved requests are the ones taken as declined
DeclinedWhenApproved(r) == r.approved

\* if not request.approved
Declined(r) == ~r.approved

\* decline_generator, and the dict approve_tool_calls returns
DeclineReply(k) ==
  IF Streaming(k)
  THEN <<Frame("bare", "declined"), Frame("sse", "[DONE]")>>
  ELSE <<Frame("json", "declined")>>

\* the messages built from request.chat_history (one user message here),
\* then the assistant message that carries the tool calls
BuiltMessages ==
  << [role |-> "user", tool_call_id |-> 0, content |-> "history"],
     [role |-> "assistant", tool_call_id |-> 0, content |-> ""] >>

\* the "success" of call_tool's result record
Success(e) == e = "success"

\* the role=tool message without the id of its call
ToolMessageNoId(i, e) ==
  [role |-> "tool", tool_call_id |-> 0,
   content |-> IF Success(e) THEN "result" ELSE "Error"]

\* the role=tool message appended for call i
ToolMessage(i, e) ==
  [role |-> "tool", tool_call_id |-> i,
   content |-> IF Success(e) THEN "result" ELSE "Error"]

\* the loop is left one call early
LoopOverEarly(i, calls) == i >= Len(calls)

\* for tool_call in request.tool_calls: the list is exhausted when call i
\* would be next
LoopOver(i, calls) == i > Len(calls)

\* the handler's locals are gone
Reset(p) ==
  /\ messages' = [messages EXCEPT ![p] = <<>>]
  /\ idx' = [idx EXCEPT ![p] = 0]
  /\ resp' = [resp EXCEPT ![p] = <<>>]
  /\ posts' = [posts EXCEPT ![p] = 0]
  /\ endings' = [endings EXCEPT ![p] = <<>>]

\* the endpoint is called: a decline is answered at once, an approval asks
\* the manager for the client
StartApproval(p, k, a, s, calls) ==
  /\ Takes(p)
  /\ started' = started + 1
  /\ LET r == [kind |-> k, server_type |-> s, custom_config |-> "None",
               approved |-> a, tool_calls |-> calls]
     IN /\ req' = [req EXCEPT ![p] = r]
        /\ IF Declined(r)
           THEN /\ resp' = [resp EXCEPT ![p] = DeclineReply(k)]
                /\ pc' = [pc EXCEPT ![p] = "over"]
           ELSE /\ pc' = [pc EXCEPT ![p] = "goc_check"]
                /\ UNCHANGED resp
  /\ UNCHANGED <<hashOf, clients, cl, nextId, client, held, outcome, iter, prior,
                 didConnect, fresh, messages, idx, posts, endings>>

\* the messages array is built and the assistant message appended
BuildMessages(p) ==
  /\ pc[p] = "have_client"
  /\ req[p].kind \in ApprovalKinds
  /\ messages' = [messages EXCEPT ![p] = BuiltMessages]
  /\ idx' = [idx EXCEPT ![p] = 1]
  /\ pc' = [pc EXCEPT ![p] = "tool_loop"]
  /\ UNCHANGED <<hashOf, clients, cl, nextId, started, req, client, held, outcome,
                 iter, prior, didConnect, fresh, resp, posts, endings>>

\* the loop body up to the await in call_tool: json.loads may raise, and
\* call_tool raises on a client that is not connected
ApproveCall(p) ==
  /\ pc[p] = "tool_loop"
  /\ ~LoopOver(idx[p], req[p].tool_calls)
  /\ IF ~req[p].tool_calls[idx[p]]
     THEN Raise(p, "JSONDecodeError")
     ELSE IF ~cl[held[p]].connected \/ cl[held[p]].session = "none"
     THEN Raise(p, "NotConnected")
     ELSE /\ pc' = [pc EXCEPT ![p] = "tool_wait"]
          /\ UNCHANGED <<outcome, req, client, held, iter, didConnect>>
  /\ UNCHANGED <<hashOf, clients, cl, nextId, started, prior, fresh, messages, idx,
                 resp, posts, endings>>

\* the role=tool message is appended and the loop goes on
ApproveAppend(p) ==
  /\ pc[p] = "tool_result"
  /\ req[p].kind \in ApprovalKinds
  /\ messages' = [messages EXCEPT ![p] = Append(@, ToolMessage(idx[p], outcome[p]))]
  /\ idx' = [idx EXCEPT ![p] = @ + 1]
  /\ outcome' = [outcome EXCEPT ![p] = "none"]
  /\ pc' = [pc EXCEPT ![p] = "tool_loop"]
  /\ UNCHANGED <<hashOf, clients, cl, nextId, started, req, client, held, iter,
                 prior, didConnect, fresh, resp, posts, endings>>

\* after the loop: requests.post(url, json=payload) with the messages
ApprovePost(p) ==
  /\ pc[p] = "tool_loop"
  /\ LoopOver(idx[p], req[p].tool_calls)
  /\ posts' = [posts EXCEPT ![p] = @ + 1]
  /\ \/ /\ pc' = [pc EXCEPT ![p] = "round_two"]
        /\ UNCHANGED <<outcome, req, client, held, iter, didConnect>>
     \/ Raise(p, "UpstreamError")
  /\ UNCHANGED <<hashOf, clients, cl, nextId, started, prior, fresh, messages, idx,
                 resp, endings>>

\* how the reply of round two can end: the stream brings [DONE], the upstream
\* closes it before, or reading it raises; the JSON reply is read or not
RoundTwoEndings(k) ==
  IF Streaming(k) THEN {"[DONE]", "closed", "raised"} ELSE {"reply", "raised"}

\* what round two delivers to the caller
RoundTwoReply(k, e) ==
  IF Streaming(k)
  THEN CASE e = "[DONE]" -> <<Frame("sse", "data"), Frame("sse", "[DONE]")>>
         [] e = "closed" -> <<Frame("sse", "data")>>
         [] e = "raised" -> <<Frame("sse", "data"), Frame("sse", "error")>>
  ELSE CASE e = "reply" -> <<Frame("json", "reply")>>
         [] e = "raised" -> <<Frame("json", "error")>>

\* the reply of round two is forwarded
ApproveRoundTwo(p) ==
  /\ pc[p] = "round_two"
  /\ \E e \in RoundTwoEndings(req[p].kind) :
       resp' = [resp EXCEPT ![p] = @ \o RoundTwoReply(req[p].kind, e)]
  /\ pc' = [pc EXCEPT ![p] = "over"]
  /\ UNCHANGED <<hashOf, clients, cl, nextId, started, req, client, held, outcome,
                 iter, prior, didConnect, fresh, messages, idx, posts, endings>>

\* a handler that swallows the exception
ErrorReplyNone(k) == <<>>

\* yield f"data: {json.dumps({'error': str(e)})}\n\n", and the dict
\* approve_tool_calls returns
ErrorReply(k) == <<Frame(IF Streaming(k) THEN "sse" ELSE "json", "error")>>

\* except Exception as e: the error is the reply
ApproveError(p) ==
  /\ pc[p] = "raised"
  /\ req[p].kind \in ApprovalKinds
  /\ resp' = [resp EXCEPT ![p] = @ \o ErrorReply(req[p].kind)]
  /\ pc' = [pc EXCEPT ![p] = "over"]
  /\ UNCHANGED <<hashOf, clients, cl, nextId, started, req, client, held, outcome,
                 iter, prior, didConnect, fresh, messages, idx, posts, endings>>

\* the reply is complete
ApproveFinish(p) ==
  /\ pc[p] = "over"
  /\ pc' = [pc EXCEPT ![p] = "idle"]
  /\ outcome' = [outcome EXCEPT ![p] = "none"]
  /\ req' = [req EXCEPT ![p] = NoRequest]
  /\ Drop(p)
  /\ ForgetOwn(p)
  /\ Reset(p)
  /\ UNCHANGED <<hashOf, clients, cl, nextId, started>>

\* the manager and its direct callers
Next ==
  \/ \E p \in Procs, s \in ServerTypes, c \in Configs :
       StartGetOrCreate(p, s, c) /\ UNCHANGED <<svars, bvars, avars>>
  \/ \E p \in Procs : GocCheck(p) /\ UNCHANGED <<svars, bvars, avars>>
  \/ \E p \in Procs, failAt \in 0..Len(ConnectSteps) :
       Connect(p, failAt) /\ UNCHANGED <<svars, bvars, avars>>
  \/ \E p \in Procs : GocReturn(p) /\ UNCHANGED <<svars, bvars, avars>>
  \/ \E p \in Procs : Finish(p) /\ UNCHANGED <<svars, bvars, avars>>
  \/ \E p \in Procs : GetAvailableTools(p) /\ UNCHANGED <<svars, bvars, avars>>
  \/ \E p \in Procs : CallToolBegin(p) /\ UNCHANGED <<svars, bvars, avars>>
  \/ \E p \in Procs : CallToolEnd(p) /\ UNCHANGED <<svars, bvars, messages, idx, resp, posts>>
  \/ \E p \in Procs : TakeResult(p) /\ UNCHANGED <<svars, bvars, avars>>
  \/ \E p \in Procs : StartCleanupAll(p) /\ UNCHANGED <<svars, bvars, avars>>
  \/ \E p \in Procs : CleanupNext(p) /\ UNCHANGED <<svars, bvars, avars>>
  \/ \E p \in Procs : CleanupAclose(p) /\ UNCHANGED <<svars, bvars, avars>>
  \/ \E p \in Procs : CleanupAcloseRaises(p) /\ UNCHANGED <<svars, bvars, avars>>
  \/ \E p \in Procs : CleanupMark(p) /\ UNCHANGED <<svars, bvars, avars>>
  \/ \E p \in Procs : CleanupClear(p) /\ UNCHANGED <<svars, bvars, avars>>

Init == SIdle /\ BIdle /\ hashOf \in HashChoices /\ MInit

Spec == Init /\ [][Next]_vars

\* the approval endpoints, with cleanup_all called beside them
NextApprove ==
  \/ \E p \in Procs, k \in ApprovalKinds, a \in BOOLEAN, s \in ServerTypes,
        calls \in ToolCallLists :
       started < MaxApprovals /\ StartApproval(p, k, a, s, calls) /\ UNCHANGED <<svars, bvars>>
  \/ \E p \in Procs : GocCheck(p) /\ UNCHANGED <<svars, bvars, avars>>
  \/ \E p \in Procs, failAt \in 0..Len(ConnectSteps) :
       Connect(p, failAt) /\ UNCHANGED <<svars, bvars, avars>>
  \/ \E p \in Procs : GocReturn(p) /\ UNCHANGED <<svars, bvars, avars>>
  \/ \E p \in Procs : BuildMessages(p) /\ UNCHANGED <<svars, bvars>>
  \/ \E p \in Procs : ApproveCall(p) /\ UNCHANGED <<svars, bvars>>
  \/ \E p \in Procs : CallToolEnd(p) /\ UNCHANGED <<svars, bvars, messages, idx, resp, posts>>
  \/ \E p \in Procs : ApproveAppend(p) /\ UNCHANGED <<svars, bvars>>
  \/ \E p \in Procs : ApprovePost(p) /\ UNCHANGED <<svars, bvars>>
  \/ \E p \in Procs : ApproveRoundTwo(p) /\ UNCHANGED <<svars, bvars>>
  \/ \E p \in Procs : ApproveError(p) /\ UNCHANGED <<svars, bvars>>
  \/ \E p \in Procs : ApproveFinish(p) /\ UNCHANGED <<svars, bvars>>
  \/ \E p \in Procs : Finish(p) /\ UNCHANGED <<svars, bvars, avars>>
  \/ \E p \in Procs :
       started < MaxApprovals /\ StartCleanupAll(p) /\ UNCHANGED <<svars, bvars, avars>>
  \/ \E p \in Procs : CleanupNext(p) /\ UNCHANGED <<svars, bvars, avars>>
  \/ \E p \in Procs : CleanupAclose(p) /\ UNCHANGED <<svars, bvars, avars>>
  \/ \E p \in Procs : CleanupAcloseRaises(p) /\ UNCHANGED <<svars, bvars, avars>>
  \/ \E p \in Procs : CleanupMark(p) /\ UNCHANGED <<svars, bvars, avars>>
  \/ \E p \in Procs : CleanupClear(p) /\ UNCHANGED <<svars, bvars, avars>>

InitApprove == SIdle /\ BIdle /\ hashOf = (CHOOSE h \in HashChoices : TRUE) /\ MInit

SpecApprove == InitApprove /\ [][NextApprove]_vars

SInit ==
  /\ variant \in Variants
  /\ \E ls \in StreamChoices, cut \in {0, 1} :
       stream = SubSeq(Concat(ls), 1, Len(Concat(ls)) - cut)
  /\ pos = 0
  /\ buffer = <<>>
  /\ out = <<>>
  /\ sstate = "open"
  /\ doneAt = -1
  /\ chunks = 0
  /\ sawPartial = FALSE
  /\ afterRaise = <<>>
  /\ hashOf = CHOOSE h \in HashChoices : TRUE
  /\ MInit
  /\ BIdle

\* one iteration of `for chunk in iter_content(...)`: a chunk of n characters
Feed(n) ==
  /\ sstate = "open"
  /\ pos + n <= Len(stream)
  /\ LET chunk == SubSeq(stream, pos + 1, pos + n)
         r == Loop(variant, Accumulate(buffer, chunk), out)
     IN /\ buffer' = r.buffer
        /\ out' = r.out
        /\ sstate' = IF r.returned THEN "returned" ELSE "open"
        /\ doneAt' = IF r.done /\ doneAt = -1 THEN Len(r.out) ELSE doneAt
        /\ sawPartial' = (sawPartial \/ (~r.done /\ r.buffer # <<>>))
  /\ pos' = pos + n
  /\ chunks' = IF chunks < 2 THEN chunks + 1 ELSE 2
  /\ UNCHANGED <<variant, stream, afterRaise>>

\* the upstream closed the connection: the for loop ends
StreamClose ==
  /\ sstate = "open"
  /\ pos = Len(stream)
  /\ sstate' = "closed"
  /\ UNCHANGED <<variant, stream, pos, buffer, out, doneAt, chunks, sawPartial,
                 afterRaise>>

\* iter_content raises (the connection broke): the exception leaves the
\* `with requests.post(...)` block, which closes the response
StreamRaises ==
  /\ sstate = "open"
  /\ sstate' = "raised"
  /\ afterRaise' = OnRaise(variant)
  /\ UNCHANGED <<variant, stream, pos, buffer, out, doneAt, chunks, sawPartial>>

SNext ==
  \/ \E n \in 1..Len(stream) : Feed(n) /\ UNCHANGED <<mvars, bvars>>
  \/ StreamClose /\ UNCHANGED <<mvars, bvars>>
  \/ StreamRaises /\ UNCHANGED <<mvars, bvars>>

SpecStream == SInit /\ [][SNext]_vars

\* the conversation builder alone, on every chat history
BInit ==
  /\ history \in Histories
  /\ built = <<>>
  /\ SIdle
  /\ hashOf = (CHOOSE h \in HashChoices : TRUE)
  /\ MInit

BNext == BuildNext /\ UNCHANGED <<svars, mvars>>

SpecBuild == BInit /\ [][BNext]_vars

(***************************************************************************)
(* Claims about the line-reassembly loops (under SpecStream).              *)
(***************************************************************************)
\* the text delivered so far
Fed == SubSeq(stream, 1, pos)

\* the payloads of the complete data lines of a text, [DONE] included, in order
RECURSIVE Payloads(_)
Payloads(text) ==
  LET line_end == Find(text) IN
  IF line_end = 0 THEN <<>>
  ELSE LET line == Strip(SubSeq(text, 1, line_end - 1))
           rest == SubSeq(text, line_end + 1, Len(text))
       IN IF StartsWith(line, DataPrefix)
          THEN <<Payload(line)>> \o Payloads(rest)
          ELSE Payloads(rest)

\* a well-formed event stream: data frames, ended by [DONE] if it is there
WellFormed(text) ==
  \A i \in 1..Len(Payloads(text)) :
    Payloads(text)[i] = DoneText => i = Len(Payloads(text))

\* the text after the last newline of a text: its unfinished line
RECURSIVE PartialLine(_)
PartialLine(text) ==
  IF Find(text) = 0 THEN text
  ELSE PartialLine(SubSeq(text, Find(text) + 1, Len(text)))

IsSuffix(t, b) == Len(t) <= Len(b) /\ SubSeq(b, Len(b) - Len(t) + 1, Len(b)) = t

\* C1: however a well-formed stream is split into chunks, the frames emitted
\* are those emitted when the text delivered so far is fed as a single chunk,
\* and while the loop reads, the unfinished line at the end of the last chunk
\* is still in the buffer.
C1_ChunkingKeepsFrames ==
  WellFormed(stream) =>
    /\ out = Loop(variant, Fed, <<>>).out
    /\ sstate = "open" => IsSuffix(PartialLine(Fed), buffer)

\* C1's case: a well-formed stream ended by [DONE], delivered in several
\* chunks of which one ended inside a line, with frames emitted
C1_Witness ==
  /\ WellFormed(stream)
  /\ pos = Len(stream)
  /\ chunks = 2
  /\ sawPartial
  /\ doneAt # -1
  /\ Len(out) >= 2

\* the number of [DONE] frames among frames
RECURSIVE DoneFrames(_)
DoneFrames(frames) ==
  IF frames = <<>> THEN 0
  ELSE (IF Head(frames) = DoneFrame THEN 1 ELSE 0) + DoneFrames(Tail(frames))

\* C2: once a [DONE] line was consumed, nothing more is emitted, by the rest
\* of that chunk or by a later chunk, and the end of the stream is emitted once
\* (event_generator forwards it as one [DONE] frame, the last one).
C2_DoneEndsTheStream ==
  doneAt # -1 =>
    /\ Len(out) = doneAt
    /\ variant = "event_generator" =>
         DoneFrames(out) = 1 /\ out[Len(out)] = DoneFrame

(***************************************************************************)
(* Claims about the connection manager (under Spec).                       *)
(***************************************************************************)
\* the workers that hold a client get_or_create_client returned
Holding == {p \in Procs : pc[p] \in {"have_client", "tool_wait", "tool_result"}}

\* the objects MCPClient() has created
Created == 1..(nextId - 1)

\* C3: a call made after a call for the same key returned its client, with no
\* cleanup since, returns that same client and does not run the connect
\* sequence.
C3_SecondCallSameConnection ==
  \A p \in Procs :
    (pc[p] = "have_client" /\ fresh[p] /\ prior[p] # {}) =>
      (~didConnect[p] /\ prior[p] = {held[p]})

\* C4 as stated: calls with distinct (server_type, config) pairs hold distinct
\* connections.
C4_DistinctArgumentsDistinctConnections ==
  \A p, q \in Holding :
    <<req[p].server_type, req[p].custom_config>> #
      <<req[q].server_type, req[q].custom_config>> => held[p] # held[q]

\* the two calls differ in the server type or in the hash of the config text
DistinctKeys(p, q) ==
  \/ req[p].server_type # req[q].server_type
  \/ hashOf[ConfigText(req[p].custom_config)] # hashOf[ConfigText(req[q].custom_config)]

\* C4, amended: calls whose keys differ (the server type, or the hash of the
\* config text, where None and {} have the empty text) never resolve to the
\* same mapping entry: each holds its own connection, which is not the one of
\* the other, and no two entries of the mapping share a key or a client.
C4_DistinctKeysDistinctConnections ==
  /\ \A p, q \in Holding : DistinctKeys(p, q) => held[p] # held[q]
  /\ \A i, j \in 1..Len(clients) :
       i # j => clients[i].key # clients[j].key /\ clients[i].client # clients[j].client

\* C4's case: two callers hold connections got under keys that differ
C4_Witness ==
  \E p, q \in Holding :
    /\ DistinctKeys(p, q)
    /\ cl[held[p]].connected /\ cl[held[q]].connected
    /\ Len(clients) = 2

\* a live connection: connected, over an open transport
Live(c) == cl[c].connected /\ cl[c].transport = "open"

\* C5: at no time are there two live connections for one key (two concurrent
\* calls for an unseen key do not both spawn a transport).
C5_OneLiveConnectionPerKey ==
  \A c, d \in Created :
    (c # d /\ cl[c].key = cl[d].key) => ~(Live(c) /\ Live(d))

\* C6: a client whose connect sequence failed or timed out is not in the
\* mapping and is held by no caller, and every connect sequence runs on a
\* client object of its own, just created, that is not in the mapping.
C6_FailedNeverStoredNorReturned ==
  /\ \A i \in 1..Len(clients) : ~cl[clients[i].client].failed
  /\ \A p \in Holding : ~cl[held[p]].failed
  /\ \A p \in Procs :
       pc[p] = "connect" =>
         /\ cl[client[p]] = NewClient(KeyOf(p))
         /\ \A q \in Procs : q # p => client[q] # client[p] /\ held[q] # client[p]
         /\ \A i \in 1..Len(clients) : clients[i].client # client[p]

\* C6's case: a connect sequence failed for a key, and a later call for that
\* key ran the connect sequence on a newer client and was given it
C6_Witness ==
  \E p \in Procs, c \in Created :
    /\ cl[c].failed
    /\ pc[p] = "have_client"
    /\ didConnect[p]
    /\ cl[c].key = KeyOf(p)
    /\ held[p] > c
    /\ cl[held[p]].connected

\* C7: once a connect sequence failed (get_or_create_client raises), no
\* transport or session that attempt opened is still open.
C7_FailedAttemptLeavesNothingOpen ==
  \A c \in Created :
    cl[c].failed => cl[c].transport # "open" /\ cl[c].session # "open"

\* C8: call_tool never raises: whatever the state of the client, the caller
\* gets a result record.
C8_CallToolNeverRaises ==
  \A p \in Procs : outcome[p] # "NotConnected"

\* the messages of the conversation before the first role=tool message
Base == Len(BuiltMessages)

\* C9: a tool call that times out becomes a success:false result and never
\* aborts the handler: every call that has ended, timed out or not, either
\* has its role=tool message at its place in the conversation, unchanged by
\* what later calls did, or is the call whose result is about to be appended;
\* and a round-two request is issued only with one such message per ended
\* call, the timed-out ones included.
C9_TimeoutIsAResultAndTheRoundGoesOn ==
  \A p \in Procs :
    req[p].kind \in ApprovalKinds =>
      /\ \A i \in 1..Len(endings[p]) :
           IF i < idx[p]
           THEN /\ Base + i <= Len(messages[p])
                /\ messages[p][Base + i] =
                     [role |-> "tool", tool_call_id |-> i,
                      content |-> IF endings[p][i] = "success" THEN "result" ELSE "Error"]
           ELSE /\ i = idx[p]
                /\ pc[p] = "tool_result"
                /\ outcome[p] = endings[p][i]
      /\ posts[p] > 0 =>
           /\ Len(endings[p]) = Len(req[p].tool_calls)
           /\ Len(messages[p]) = Base + Len(req[p].tool_calls)

\* an approved request of two calls: the first timed out, the second was
\* still executed, and round two was issued with both results
C9_Witness ==
  \E p \in Procs :
    /\ req[p].kind \in ApprovalKinds
    /\ pc[p] = "over"
    /\ posts[p] = 1
    /\ endings[p] = <<"timeout", "success">>
    /\ messages[p][Base + 1].content = "Error"
    /\ messages[p][Base + 2].content = "result"

\* C10: a declined approval request never issues the round-two upstream
\* request, on the streaming and on the non-streaming endpoint.
C10_DeclineIssuesNoRequest ==
  \A p \in Procs :
    (req[p].kind \in ApprovalKinds /\ ~req[p].approved) =>
      /\ posts[p] = 0
      /\ pc[p] = "over"

\* a declined streaming request and a declined non-streaming request, both
\* answered
C10_Witness ==
  \E p, q \in Procs :
    /\ req[p].kind = "approve_tool_calls_streaming"
    /\ req[q].kind = "approve_tool_calls"
    /\ ~req[p].approved /\ ~req[q].approved
    /\ pc[p] = "over" /\ pc[q] = "over"
    /\ resp[p] = DeclineReply(req[p].kind)
    /\ resp[q] = DeclineReply(req[q].kind)
    /\ Len(req[p].tool_calls) > 0

\* the role=tool messages of a conversation
ToolMessages(ms) == SubSeq(ms, Base + 1, Len(ms))

\* C11: when the round-two request is issued, the conversation it sends is
\* the built history and the assistant message, followed by exactly one
\* role=tool message per listed tool call, in list order, message i carrying
\* the id of call i.
C11_RoundTwoConversation ==
  \A p \in Procs :
    (req[p].kind \in ApprovalKinds /\ posts[p] > 0) =>
      /\ SubSeq(messages[p], 1, Base) = BuiltMessages
      /\ Len(ToolMessages(messages[p])) = Len(req[p].tool_calls)
      /\ \A i \in 1..Len(req[p].tool_calls) :
           /\ ToolMessages(messages[p])[i].role = "tool"
           /\ ToolMessages(messages[p])[i].tool_call_id = i

\* round two was issued for a request that listed two tool calls
C11_Witness ==
  \E p \in Procs :
    /\ req[p].kind \in ApprovalKinds
    /\ posts[p] = 1
    /\ Len(req[p].tool_calls) = 2
    /\ Len(messages[p]) = Base + 2

\* C12: the tool calls of one request run one after the other in list order:
\* while call i is in progress exactly the calls before it have ended, a call
\* that has ended is the one the loop is at, and the round-two request is
\* issued only when every listed call has ended.
C12_CallsRunInSequence ==
  \A p \in Procs :
    req[p].kind \in ApprovalKinds =>
      /\ pc[p] = "tool_wait" =>
           /\ idx[p] \in 1..Len(req[p].tool_calls)
           /\ Len(endings[p]) = idx[p] - 1
      /\ pc[p] = "tool_result" => Len(endings[p]) = idx[p]
      /\ pc[p] = "tool_loop" => Len(endings[p]) = idx[p] - 1
      /\ posts[p] > 0 => Len(endings[p]) = Len(req[p].tool_calls)

\* the second of two listed calls is in progress, the first has ended
C12_Witness ==
  \E p \in Procs :
    /\ req[p].kind \in ApprovalKinds
    /\ pc[p] = "tool_wait"
    /\ idx[p] = 2
    /\ Len(endings[p]) = 1

\* a connection that a completed cleanup left: nothing to exit, not connected
AlreadyClosed(c) == ~c.stack /\ ~c.connected

\* C13: cleanup is idempotent. A step of cleanup_all over a mapping that was
\* and is empty goes on to clear() and changes neither the mapping nor any
\* client; the steps of cleanup on a connection that is already closed change
\* no client and do not raise; and cleanup_all returns only by leaving the
\* mapping empty.
C13_CleanupIdempotent ==
  [][\A p \in Procs :
       /\ (pc[p] = "cleanup_next" /\ iter[p].size = 0 /\ clients = <<>>
             /\ pc'[p] # pc[p]) =>
            (pc'[p] = "cleanup_clear" /\ clients' = clients /\ cl' = cl)
       /\ (pc[p] = "cleanup_aclose" /\ AlreadyClosed(cl[client[p]])
             /\ pc'[p] # pc[p]) =>
            (pc'[p] = "cleanup_mark" /\ cl' = cl /\ clients' = clients)
       /\ (pc[p] = "cleanup_mark" /\ AlreadyClosed(cl[client[p]])
             /\ pc'[p] # pc[p]) =>
            (pc'[p] = "cleanup_next" /\ cl' = cl /\ clients' = clients)
       /\ (pc[p] = "cleanup_clear" /\ pc'[p] # pc[p]) =>
            (pc'[p] = "idle" /\ clients' = <<>> /\ cl' = cl)]_vars

\* cleanup ran again on a connection that an earlier cleanup had closed
C13_Witness ==
  \E p \in Procs :
    /\ pc[p] = "cleanup_mark"
    /\ AlreadyClosed(cl[client[p]])
    /\ cl[client[p]].transport = "closed"

\* C14: cleanup releases the connection whatever else is going on: the step
\* by which MCPClient.cleanup returns leaves the client with no open
\* transport or session and not marked connected, also while a tool call is
\* in flight on it; and a tool call in flight can always end, and ends with a
\* result record, never with an exception.
C14_CleanupReleasesUnderCalls ==
  [][\A p \in Procs :
       /\ (pc[p] = "cleanup_mark" /\ pc'[p] # pc[p]) =>
            /\ cl'[client[p]].transport # "open"
            /\ cl'[client[p]].session # "open"
            /\ ~cl'[client[p]].connected
       /\ pc[p] = "tool_wait" =>
            /\ ToolEndings(cl[held[p]]) # {}
            /\ pc'[p] # pc[p] =>
                 (pc'[p] = "tool_result" /\ outcome'[p] \in ToolEndings(cl[held[p]]))]_vars

\* cleanup of a connection has returned while a tool call is in flight on it
C14_Witness ==
  \E p, q \in Procs :
    /\ pc[q] = "tool_wait"
    /\ pc[p] \in {"cleanup_next", "cleanup_clear"}
    /\ iter[p].at > 1
    /\ client[p] = held[q]
    /\ cl[held[q]].transport = "closed"
    /\ ~cl[held[q]].connected

\* C15: at no time are two call_tool invocations of different requests in
\* progress on one connection.
C15_CallsOnAConnectionSerialized ==
  \A p, q \in Procs :
    (p # q /\ pc[p] = "tool_wait" /\ pc[q] = "tool_wait") => held[p] # held[q]

\* the last frame given to the caller ends the stream: [DONE] or an error
Terminated(frames) ==
  /\ frames # <<>>
  /\ frames[Len(frames)] \in {Frame("sse", "[DONE]"), Frame("sse", "error")}

\* C16: every frame sequence the streaming endpoint has finished giving to
\* its caller ends with the end-of-stream frame or with an error frame.
C16_StreamEndsWithTerminalFrame ==
  \A p \in Procs :
    (Streaming(req[p].kind) /\ pc[p] = "over") => Terminated(resp[p])

\* C17: no failure local to one tool call (arguments that cannot be decoded,
\* a connection that is not connected) leaves the tool loop as an exception
\* that ends the round.
C17_CallFailureNeverAbortsRound ==
  \A p \in Procs :
    (req[p].kind \in ApprovalKinds /\ pc[p] = "raised") =>
      outcome[p] \notin {"JSONDecodeError", "NotConnected"}

\* C18: a get_or_create_client call that fails (no configuration, a failed or
\* timed-out connect) leaves the mapping as it was: the step by which it
\* raises changes no entry of the mapping and no client that is stored in it,
\* so every other key is still stored, as connected as before, and is what
\* get_or_create_client returns for it.
C18_FailureLeavesMappingUnchanged ==
  [][\A p \in Procs :
       (pc[p] \in {"goc_check", "connect", "goc_return"} /\ pc'[p] = "raised") =>
         /\ clients' = clients
         /\ \A i \in 1..Len(clients) :
              /\ cl'[clients[i].client] = cl[clients[i].client]
              /\ Lookup(clients', clients[i].key) = clients[i].client]_vars

\* a connect failed for one key while a connected client is stored under
\* another key
C18_Witness ==
  \E p \in Procs, c \in Created, i \in 1..Len(clients) :
    /\ pc[p] = "raised"
    /\ outcome[p] = "ConnectError"
    /\ cl[c].failed
    /\ clients[i].key # cl[c].key
    /\ cl[clients[i].client].connected

\* the fields of a Message in the fixed order text, image, audio, document,
\* each with the type of the block it expands to
FieldOrder ==
  << [field |-> "content", type |-> "text"],
     [field |-> "image", type |-> "image_url"],
     [field |-> "audio", type |-> "input_audio"],
     [field |-> "pdf", type |-> "file"] >>

\* a field that holds something: a non-empty text, a non-empty dict
NonEmpty(msg, f) == msg[f.field] \notin {"", "None", "{}"}

\* the non-empty fields of a message, in the fixed order
NonEmptyFields(msg) == SelectSeq(FieldOrder, LAMBDA f : NonEmpty(msg, f))

\* C19: the builder maps the chat history to a list of the same length with
\* the same roles in the same order, and the content of each built message is
\* one block per non-empty field of its message, in the order text, image,
\* audio, document, and no block for an empty field.
C19_BuildExpandsFieldsInOrder ==
  /\ Len(built) <= Len(history)
  /\ ~ENABLED BuildNext => Len(built) = Len(history)
  /\ \A i \in 1..Len(built) :
       /\ built[i].role = history[i].role
       /\ Len(built[i].content) = Len(NonEmptyFields(history[i]))
       /\ \A j \in 1..Len(built[i].content) :
            LET f == NonEmptyFields(history[i])[j]
            IN built[i].content[j] = [type |-> f.type, value |-> history[i][f.field]]

\* a history of two messages was built: one with all four fields, one with
\* an empty text, an empty image dict and only a document
C19_Witness ==
  /\ Len(history) = 2
  /\ Len(built) = 2
  /\ history[1] = [role |-> "user", content |-> "hi", image |-> "data",
                   audio |-> "data", pdf |-> "data"]
  /\ history[2] = [role |-> "assistant", content |-> "", image |-> "{}",
                   audio |-> "None", pdf |-> "data"]
  /\ Len(built[1].content) = 4
  /\ Len(built[2].content) = 1

\* the complete lines of a text: what stands before each newline
RECURSIVE SplitLines(_, _)
SplitLines(text, cur) ==
  IF text = <<>> THEN <<>>
  ELSE IF Head(text) = NL THEN <<cur>> \o SplitLines(Tail(text), <<>>)
  ELSE SplitLines(Tail(text), Append(cur, Head(text)))

\* a line without the whitespace around it
Trimmed(line) ==
  LET inked == {i \in 1..Len(line) : line[i] \notin Whitespace} IN
  IF inked = {} THEN <<>>
  ELSE SubSeq(line, CHOOSE i \in inked : \A j \in inked : i <= j,
                    CHOOSE i \in inked : \A j \in inked : i >= j)

\* the data frames an upstream text holds, as payloads in the order received
RECURSIVE FramesOf(_)
FramesOf(lines) ==
  IF lines = <<>> THEN <<>>
  ELSE LET core == Trimmed(Head(lines)) IN
       IF Len(core) >= 6 /\ SubSeq(core, 1, 6) = <<"d", "a", "t", "a", ":", " ">>
       THEN <<SubSeq(core, 7, Len(core))>> \o FramesOf(Tail(lines))
       ELSE FramesOf(Tail(lines))

\* the frames before the first [DONE]
RECURSIVE UpToDone(_)
UpToDone(ps) ==
  IF ps = <<>> \/ Head(ps) = <<"[", "D", "O", "N", "E", "]">> THEN <<>>
  ELSE <<Head(ps)>> \o UpToDone(Tail(ps))

\* what the loop gave its caller before it consumed [DONE]
DeliveredBeforeDone ==
  IF doneAt = -1 THEN out
  ELSE SubSeq(out, 1, IF variant = "event_generator" THEN doneAt - 1 ELSE doneAt)

\* a payload as the loop hands it on: bare, or framed again as data: ...\n\n
Delivered(p) ==
  IF variant = "event_generator" THEN <<"d", "a", "t", "a", ":", " ">> \o p \o <<NL, NL>>
  ELSE p

\* C20: what the caller is given before [DONE] is exactly the data frames
\* received from upstream before [DONE]: each once, with its payload, in the
\* order received.
C20_FramesDeliveredOnceInOrder ==
  LET received == UpToDone(FramesOf(SplitLines(Fed, <<>>))) IN
  /\ Len(DeliveredBeforeDone) = Len(received)
  /\ \A i \in 1..Len(received) : DeliveredBeforeDone[i] = Delivered(received[i])

\* a stream of data frames, one of them with whitespace around its line,
\* was read in several chunks up to its [DONE]
C20_Witness ==
  /\ doneAt # -1
  /\ chunks = 2
  /\ sawPartial
  /\ Len(DeliveredBeforeDone) = 2
  /\ UpToDone(FramesOf(SplitLines(Fed, <<>>))) = << <<"a">>, <<"b">> >>

\* C21: the connect sequence runs transport, session, initialize, list tools
\* in this order, and the first step that fails or times out ends it: when
\* connect_to_server is over, a session is open only over an open transport,
\* the tool list is there only with an open session, the client is connected
\* exactly if no step failed, and a connected client has passed all four
\* steps.
C21_ConnectSequence ==
  [][\A p \in Procs :
       (pc[p] = "connect" /\ pc'[p] # pc[p]) =>
         LET c == cl'[client[p]] IN
         /\ c.session = "open" => c.transport = "open"
         /\ c.tools => c.session = "open"
         /\ c.connected <=> ~c.failed
         /\ c.connected => (c.transport = "open" /\ c.session = "open" /\ c.tools)
         /\ c.failed => (~c.connected /\ ~c.tools)
         /\ pc'[p] = (IF c.connected THEN "goc_return" ELSE "raised")]_vars

\* one connect sequence ended at a step after the transport was opened, and
\* another one passed all four steps
C21_Witness ==
  \E c, d \in Created :
    /\ cl[c].failed /\ cl[c].transport = "open" /\ cl[c].session = "open"
    /\ ~cl[c].connected
    /\ cl[d].connected /\ cl[d].tools /\ cl[d].session = "open"

\* a connection that is Ready: connected, over an open session and transport
Ready(c) == c.connected /\ c.session = "open" /\ c.transport = "open"

\* C22: the tool list given for a key is the list cached by a connection
\* that is Ready; it is never the empty list or the list of a connection
\* that is no longer Ready.
C22_ListToolsFromReadyConnection ==
  [][\A p \in Procs :
       (pc[p] = "have_client" /\ pc'[p] = "listed") =>
         (Ready(cl[held[p]]) /\ outcome'[p] = "cached")]_vars

\* C23: when reading the upstream body raises, the frames given to the
\* caller end with exactly one error frame, the upstream response is closed
\* and nothing is yielded afterwards.
C23_PumpFailureEndsWithOneErrorFrame ==
  sstate = "raised" =>
    /\ afterRaise = <<ErrorFrame>>
    /\ ~ENABLED SNext

\* C24: a declined streaming approval request is answered with exactly one
\* frame that says the tool calls were declined, in the data-frame format of
\* every other frame, then the end-of-stream frame, and nothing else.
C24_DeclineIsOneDataFrameThenDone ==
  \A p \in Procs :
    (Streaming(req[p].kind) /\ Declined(req[p]) /\ pc[p] = "over") =>
      resp[p] = <<Frame("sse", "declined"), Frame("sse", "[DONE]")>>

\* C25: whenever no cleanup_all is running, every connection stored in the
\* mapping is Ready (the claim says so of every state; the states in the
\* middle of a cleanup_all are left out here).
C25_StoredConnectionsAreReady ==
  (\A p \in Procs : req[p].kind # "cleanup_all") =>
    \A i \in 1..Len(clients) : Ready(cl[clients[i].client])

\* the workers inside get_or_create_client
InGetOrCreate == {p \in Procs : pc[p] \in {"goc_check", "connect", "goc_return"}}

\* C26: when cleanup_all returns and no get_or_create_client is in flight,
\* no transport that a get_or_create_client spawned is open, whether its
\* client is in the mapping or was overwritten there.
C26_CleanupAllClosesEveryTransport ==
  [][\A p \in Procs :
       (pc[p] = "cleanup_clear" /\ pc'[p] = "idle" /\ InGetOrCreate = {}) =>
         \A c \in Created : cl'[c].transport # "open"]_vars

\* C27: handling a decline executes no tool call, asks the manager for no
\* connection and changes neither the mapping nor any client: a request that
\* is not approved is answered at once, holds no client, has run no connect
\* sequence and no tool call, and its steps leave the manager untouched.
C27_DeclineTouchesNothing ==
  [][\A p \in Procs :
       LET before == req[p].kind \in ApprovalKinds /\ ~req[p].approved
           after == req'[p].kind \in ApprovalKinds /\ ~req'[p].approved
       IN /\ after =>
               /\ pc'[p] = "over"
               /\ held'[p] = NoClient /\ client'[p] = NoClient
               /\ ~didConnect'[p]
               /\ endings'[p] = <<>> /\ messages'[p] = <<>> /\ idx'[p] = 0
          /\ ((before \/ after) /\ pc'[p] # pc[p]) =>
               UNCHANGED <<clients, cl, nextId>>]_vars

\* a decline of a request that lists tool calls was answered while the
\* mapping holds a connected client
C27_Witness ==
  \E p \in Procs :
    /\ req[p].kind \in ApprovalKinds /\ ~req[p].approved
    /\ Len(req[p].tool_calls) = MaxToolCalls
    /\ pc[p] = "over"
    /\ resp[p] # <<>>
    /\ Len(clients) > 0
    /\ cl[clients[1].client].connected

\* the exceptions get_or_create_client raises
ConnectionErrors == {"ValueError", "ConnectError", "KeyError"}

\* C28: when get_or_create_client fails in an approved streaming request,
\* the caller is given exactly one error frame and nothing else, no tool
\* call is executed and no round-two request is issued.
C28_ConnectFailureIsOneErrorFrame ==
  \A p \in Procs :
    (Streaming(req[p].kind) /\ req[p].approved /\ outcome[p] \in ConnectionErrors) =>
      /\ pc[p] \in {"raised", "over"}
      /\ resp[p] = (IF pc[p] = "over" THEN <<Frame("sse", "error")>> ELSE <<>>)
      /\ endings[p] = <<>>
      /\ messages[p] = <<>>
      /\ posts[p] = 0

\* a failed get_or_create_client has been answered, for a request that lists
\* tool calls
C28_Witness ==
  \E p \in Procs :
    /\ Streaming(req[p].kind) /\ req[p].approved
    /\ outcome[p] \in {"ValueError", "ConnectError"}
    /\ Len(req[p].tool_calls) > 0
    /\ pc[p] = "over"
    /\ resp[p] = <<Frame("sse", "error")>>

====
